---- MODULE Spec2Model ----
(***************************************************************************)
(* meta-project plugin (harmony-labs/meta_project_cli).                    *)
(*                                                                         *)
(* The state is the workspace on disk (directories, regular files and the  *)
(* .meta manifests they hold), the last plugin request, the CommandResult  *)
(* execute_command returned for it, the process exit code main chose, and  *)
(* the clone commands the external runner still has to run.                *)
(*                                                                         *)
(* Paths are sequences of path segments relative to the working directory: *)
(* <<>> is the working directory, <<"alpha">> is ./alpha, and              *)
(* <<"alpha", "beta">> is ./alpha/beta.                                    *)
(***************************************************************************)
EXTENDS Integers, Sequences, FiniteSets, TLC

VARIABLES cwdOk, dirs, files, meta, request, result, exitCode, pending

vars == <<cwdOk, dirs, files, meta, request, result, exitCode, pending>>

world == <<cwdOk, dirs, files, meta>>

----------------------------------------------------------------------------
(* Bounds *)

\* Number of distinct project keys a manifest can declare.
MaxProjects == 2

\* Longest pre-discovered project list a request carries.
MaxProvided == 1

\* Largest depth option a list request carries.
MaxDepth == 1

\* Keys are labelled by the position they have in the manifest file, so the
\* manifest order of a set of keys is their order in NamePool.
NamePool == <<"alpha", "beta", "gamma", "delta">>

Names == {NamePool[i] : i \in 1..MaxProjects}

\* The directory whose own manifest the bounded workspaces vary.
NestedDirs == {<<NamePool[1]>>}

\* The keys a nested manifest can declare in the bounded workspaces.
NestedNames == {NamePool[2]}

\* Keys that are no plain directory name: one with a parent segment and one
\* absolute path.  A manifest is a JSON object and takes any string as a key.
EscapingKeys == <<"../outside", "/abs">>

\* All keys, in the order a manifest file lists them.
KeyPool == NamePool \o EscapingKeys

----------------------------------------------------------------------------
(* Manifests *)

\* What the value of one entry of "projects" is:
\*   string         "alpha": "https://x/a.git"
\*   object_repo    "alpha": {"repo": "https://x/a.git", "tags": ["t"]}
\*   object_norepo  "alpha": {}
\*   other          "alpha": 42
\*   undeclared     the key does not occur
ValueKinds == {"string", "object_repo", "object_norepo", "other"}

EntryKinds == ValueKinds \cup {"undeclared"}

\* absent: no .meta; unreadable: .meta exists and cannot be read;
\* badsyntax: not JSON; noprojects: "projects" absent or not an object.
BadStates == {"unreadable", "badsyntax", "noprojects"}

NoEntries == [n \in Names |-> "undeclared"]

Manifest(s, e) == [state |-> s, projects |-> e]

AbsentManifest == Manifest("absent", NoEntries)

MetaAt(dir) == IF dir \in DOMAIN meta THEN meta[dir] ELSE AbsentManifest

\* The URL an entry gives: every declaration has its own.
RepoUrl(dir, name) == <<"url">> \o dir \o <<name>>

\* Keys of a set in manifest order.
RECURSIVE InOrderFrom(_, _)
InOrderFrom(i, S) ==
    IF i > Len(KeyPool) THEN <<>>
    ELSE (IF KeyPool[i] \in S THEN <<KeyPool[i]>> ELSE <<>>) \o InOrderFrom(i + 1, S)

ManifestOrder(S) == InOrderFrom(1, S)

----------------------------------------------------------------------------
(* Filesystem *)

\* The root of the filesystem, as the first segment of an absolute path.
FsRoot == "/"

\* The components of a key read as a path.
KeySegs(name) ==
    IF name = EscapingKeys[1] THEN <<"..", "outside">>
    ELSE IF name = EscapingKeys[2] THEN <<FsRoot, "abs">>
    ELSE <<name>>

\* Path::is_absolute of a key.
IsAbsoluteKey(name) == Head(KeySegs(name)) = FsRoot

\* Path::join of a base path and a key: an absolute key replaces the base,
\* and no component is resolved or checked.
Join(base, name) ==
    IF IsAbsoluteKey(name) THEN KeySegs(name) ELSE base \o KeySegs(name)

\* Path::is_dir
IsDir(p) == p = <<>> \/ p \in dirs

\* Path::exists of dir/.meta
MetaExists(dir) == IsDir(dir) /\ MetaAt(dir).state # "absent"

----------------------------------------------------------------------------
(* Helpers *)

\* Every enumeration of a finite set without repetition: the orders in which
\* a std HashMap may iterate its entries.
RECURSIVE SeqsOf(_)
SeqsOf(S) ==
    IF S = {} THEN {<<>>}
    ELSE UNION {{<<x>> \o t : t \in SeqsOf(S \ {x})} : x \in S}

Range(s) == {s[i] : i \in 1..Len(s)}

----------------------------------------------------------------------------
(* Command results (lib.rs) *)

NoOutput == <<>>

\* CommandResult::Plan(commands, parallel)
Plan(commands, parallel) ==
    [kind |-> "Plan", text |-> "", arg |-> "", count |-> 0,
     commands |-> commands, parallel |-> parallel, output |-> NoOutput]

\* CommandResult::Message(text)
Message(text) ==
    [kind |-> "Message", text |-> text, arg |-> "", count |-> 0,
     commands |-> <<>>, parallel |-> "None", output |-> NoOutput]

\* CommandResult::Message(format!("{} project(s) missing", n))
MessageCount(n) ==
    [kind |-> "Message", text |-> "{} project(s) missing", arg |-> "", count |-> n,
     commands |-> <<>>, parallel |-> "None", output |-> NoOutput]

\* CommandResult::Message(rendered list), json or text
MessageList(form, out) ==
    [kind |-> "Message", text |-> form, arg |-> "", count |-> 0,
     commands |-> <<>>, parallel |-> "None", output |-> out]

\* CommandResult::Error(format!("<text>{arg}"))
Error(text, arg) ==
    [kind |-> "Error", text |-> text, arg |-> arg, count |-> 0,
     commands |-> <<>>, parallel |-> "None", output |-> NoOutput]

NoResult ==
    [kind |-> "None", text |-> "", arg |-> "", count |-> 0,
     commands |-> <<>>, parallel |-> "None", output |-> NoOutput]

AllPresentText == "All projects are cloned and present."

NothingToDoText == "All projects are cloned and present. Nothing to do."

----------------------------------------------------------------------------
(* parse_meta_projects and find_missing_projects (lib.rs) *)

\* parse_meta_projects: Ok(map from key to URL) or Err(cause).  Only the
\* entries whose value is a JSON string reach the map.
parse_meta_projects(dir) ==
    LET m == MetaAt(dir) IN
    IF m.state \in {"absent", "unreadable"}
    THEN [ok |-> FALSE, err |-> "io error", map |-> <<>>]
    ELSE IF m.state = "badsyntax"
    THEN [ok |-> FALSE, err |-> "json syntax error", map |-> <<>>]
    ELSE IF m.state = "noprojects"
    THEN [ok |-> FALSE, err |-> "No 'projects' key in .meta", map |-> <<>>]
    ELSE [ok |-> TRUE, err |-> "",
          map |-> [n \in {k \in DOMAIN m.projects : m.projects[k] = "string"} |->
                      RepoUrl(dir, n)]]

\* The filter of find_missing_projects: base_dir.join(name) is no directory.
NotOnDisk(base_dir, name) == ~IsDir(Join(base_dir, name))

\* find_missing_projects: the (key, url) pairs that pass the filter, as the
\* set of Vecs the HashMap's iteration order can produce.
find_missing_projects(projects, base_dir) ==
    SeqsOf({[name |-> n, url |-> projects[n]] :
                n \in {k \in DOMAIN projects : NotOnDisk(base_dir, k)}})

----------------------------------------------------------------------------
(* execute_command, the local .meta path (lib.rs) *)

\* The working directory, as a path.
cwd == <<>>

SequentialCloning == "Some(false)"

\* format!("git clone {} {}", url, target_dir.display())
CloneCmd(url, target_dir) == <<"git clone", url, target_dir>>

\* Mutant of LocalTargetDir: the clone is sent into a directory of the same
\* name below the directory of the project.
TargetBelowProject(name) == Join(Join(cwd, name), name)

\* cwd.join(name) of the local path: name is a manifest key.
LocalTargetDir(name) == Join(cwd, name)

\* The closure that maps one missing project to its PlannedCommand.
LocalPlannedCommand(m) ==
    [dir |-> ".", cmd |-> CloneCmd(m.url, LocalTargetDir(m.name))]

\* Mutant of LocalParallel: the plan asks for parallel execution.
ParallelCloning == "Some(true)"

\* The parallel flag of the plan of the local path.
LocalParallel == SequentialCloning

\* Mutant of LocalMatch: sync builds its plan without the is_empty test.
LocalMatchAlwaysPlans(command, options, missing) ==
    IF command = "project check"
    THEN IF missing = <<>>
         THEN Message(AllPresentText)
         ELSE MessageCount(Len(missing))
    ELSE IF command \in {"project sync", "project update"}
    THEN Plan([i \in 1..Len(missing) |-> LocalPlannedCommand(missing[i])],
              LocalParallel)
    ELSE Error("Unknown command: ", command)

\* Mutant of LocalMatch: the match has no catch-all arm of its own and an
\* unknown name falls into the check arm.
LocalMatchChecksByDefault(command, options, missing) ==
    IF command \in {"project sync", "project update"}
    THEN IF missing = <<>>
         THEN Message(NothingToDoText)
         ELSE Plan([i \in 1..Len(missing) |-> LocalPlannedCommand(missing[i])],
                   LocalParallel)
    ELSE IF missing = <<>>
         THEN Message(AllPresentText)
         ELSE MessageCount(Len(missing))

\* match command { ... } of execute_command
LocalMatch(command, options, missing) ==
    IF command = "project check"
    THEN IF missing = <<>>
         THEN Message(AllPresentText)
         ELSE MessageCount(Len(missing))
    ELSE IF command \in {"project sync", "project update"}
    THEN IF missing = <<>>
         THEN Message(NothingToDoText)
         ELSE Plan([i \in 1..Len(missing) |-> LocalPlannedCommand(missing[i])],
                   LocalParallel)
    ELSE Error("Unknown command: ", command)

\* execute_command from "Fall back to reading the local .meta file" on: the
\* results it can return, one per iteration order of the map.
ExecuteLocal(command, options) ==
    LET parsed == parse_meta_projects(cwd) IN
    IF ~MetaExists(cwd)
    THEN {Error("No .meta file found in ", ".")}
    ELSE IF ~parsed.ok
    THEN {Error("Failed to parse .meta: ", parsed.err)}
    ELSE {LocalMatch(command, options, missing) :
              missing \in find_missing_projects(parsed.map, cwd)}

----------------------------------------------------------------------------
(* execute_command_recursive (lib.rs) *)

\* "Check the root .meta file first": what the first block can push.  The
\* names it pushes are the keys, as paths.
RootMissing ==
    LET parsed == parse_meta_projects(cwd) IN
    IF MetaExists(cwd) /\ parsed.ok
    THEN {[i \in 1..Len(missing) |->
               [name |-> KeySegs(missing[i].name), url |-> missing[i].url]] :
             missing \in find_missing_projects(parsed.map, cwd)}
    ELSE {<<>>}

\* format!("{}/{}", project_path, name): the key follows the project path
\* whatever it is, and a doubled separator reads as one.
FullPath(project_path, name) ==
    project_path \o (IF IsAbsoluteKey(name) THEN Tail(KeySegs(name)) ELSE KeySegs(name))

\* What one provided project directory pushes.
NestedMissing(project_path) ==
    LET project_dir == cwd \o project_path
        parsed == parse_meta_projects(project_dir)
    IN  IF MetaExists(project_dir) /\ parsed.ok
        THEN {[i \in 1..Len(missing) |->
                   [name |-> FullPath(project_path, missing[i].name),
                    url |-> missing[i].url]] :
                 missing \in find_missing_projects(parsed.map, project_dir)}
        ELSE {<<>>}

\* Mutant of ProvidedMissing: the loop ends at the first provided project
\* whose manifest exists and does not parse.
RECURSIVE ProvidedMissingUntilError(_)
ProvidedMissingUntilError(provided_projects) ==
    IF provided_projects = <<>> THEN {<<>>}
    ELSE IF /\ MetaExists(cwd \o Head(provided_projects))
            /\ ~parse_meta_projects(cwd \o Head(provided_projects)).ok
    THEN {<<>>}
    ELSE {h \o t : h \in NestedMissing(Head(provided_projects)),
                   t \in ProvidedMissingUntilError(Tail(provided_projects))}

\* The loop over provided_projects.
RECURSIVE ProvidedMissing(_)
ProvidedMissing(provided_projects) ==
    IF provided_projects = <<>> THEN {<<>>}
    ELSE {h \o t : h \in NestedMissing(Head(provided_projects)),
                   t \in ProvidedMissing(Tail(provided_projects))}

\* all_missing when the match is reached.
AllMissing(provided_projects) ==
    {r \o n : r \in RootMissing, n \in ProvidedMissing(provided_projects)}

\* cwd.join(name) of the recursive path: name is a path relative to cwd.
RecursiveTargetDir(name) == IF Head(name) = FsRoot THEN name ELSE cwd \o name

RecursivePlannedCommand(m) ==
    [dir |-> ".", cmd |-> CloneCmd(m.url, RecursiveTargetDir(m.name))]

\* The parallel flag of the plan of the recursive path.
RecursiveParallel == SequentialCloning

\* match command { ... } of execute_command_recursive
RecursiveMatch(command, all_missing) ==
    IF command = "project check"
    THEN IF all_missing = <<>>
         THEN Message(AllPresentText)
         ELSE MessageCount(Len(all_missing))
    ELSE IF command \in {"project sync", "project update"}
    THEN IF all_missing = <<>>
         THEN Message(NothingToDoText)
         ELSE Plan([i \in 1..Len(all_missing) |-> RecursivePlannedCommand(all_missing[i])],
                   RecursiveParallel)
    ELSE Error("Unknown command: ", command)

execute_command_recursive(command, provided_projects) ==
    {RecursiveMatch(command, all_missing) : all_missing \in AllMissing(provided_projects)}

----------------------------------------------------------------------------
(* The tree walker of meta_cli::config, which handle_project_list calls *)

\* Option<usize>: None is <<>>, Some(d) is <<d>>.
None == <<>>

Some(d) == <<d>>

\* The entries of a manifest the walker lists, in manifest order: strings and
\* objects; values that are neither are skipped.
ListedKeys(dir) ==
    ManifestOrder({n \in DOMAIN MetaAt(dir).projects :
        MetaAt(dir).projects[n] \in {"string", "object_repo", "object_norepo"}})

EntryRepo(dir, name) ==
    IF MetaAt(dir).projects[name] \in {"string", "object_repo"}
    THEN RepoUrl(dir, name)
    ELSE <<>>

EntryTags(dir, name) ==
    IF MetaAt(dir).projects[name] = "object_repo" THEN <<"backend">> ELSE <<>>

\* Whether the walker descends into a project that holds a manifest.
Descend(dir, max_depth) ==
    /\ MetaExists(dir)
    /\ MetaAt(dir).state = "ok"
    /\ (max_depth = None \/ max_depth[1] > 0)

RemainingDepth(max_depth) ==
    IF max_depth = None THEN None ELSE Some(max_depth[1] - 1)

\* The nodes of the projects the manifest of dir declares.
RECURSIVE WalkLevel(_, _)
WalkLevel(dir, max_depth) ==
    LET keys == ListedKeys(dir) IN
    [i \in 1..Len(keys) |->
        LET child == Join(dir, keys[i]) IN
        [info |-> [name |-> keys[i], path |-> child,
                   repo |-> EntryRepo(dir, keys[i]),
                   tags |-> EntryTags(dir, keys[i])],
         is_meta |-> MetaExists(child),
         children |-> IF Descend(child, max_depth)
                      THEN WalkLevel(child, RemainingDepth(max_depth))
                      ELSE <<>>]]

\* walk_meta_tree(cwd, max_depth): Ok(tree) or Err.
walk_meta_tree(max_depth) ==
    IF ~MetaExists(cwd)
    THEN [ok |-> FALSE, err |-> "No .meta file found", tree |-> <<>>]
    ELSE IF MetaAt(cwd).state # "ok"
    THEN [ok |-> FALSE, err |-> "Failed to parse .meta", tree |-> <<>>]
    ELSE [ok |-> TRUE, err |-> "", tree |-> WalkLevel(cwd, max_depth)]

----------------------------------------------------------------------------
(* handle_project_list (lib.rs) *)

\* Mutant of to_project_tree_node: the children of the node are not converted.
ToLeafNode(node) ==
    [name |-> node.info.name, path |-> node.info.path, repo |-> node.info.repo,
     tags |-> node.info.tags, is_meta |-> node.is_meta, projects |-> <<>>]

RECURSIVE to_project_tree_node(_)
to_project_tree_node(node) ==
    [name |-> node.info.name, path |-> node.info.path, repo |-> node.info.repo,
     tags |-> node.info.tags, is_meta |-> node.is_meta,
     projects |-> [i \in 1..Len(node.children) |-> to_project_tree_node(node.children[i])]]

BranchGlyph == "|-- "

TerminalGlyph == "L-- "

BarUnit == "|   "

SpaceUnit == "    "

\* One line of the text rendering: prefix, connector, name, (path), tags.
Line(prefix, connector, name, path, tags) ==
    [prefix |-> prefix, connector |-> connector, name |-> name, path |-> path,
     tags |-> tags]

\* Mutant of FormatFrom: the prefix of the children is extended by the
\* vertical bar whether or not the node is the last of its siblings.
RECURSIVE FormatFromBars(_, _, _)
FormatFromBars(nodes, i, prefix) ==
    IF i > Len(nodes) THEN <<>>
    ELSE LET node == nodes[i]
             is_last == i = Len(nodes)
             connector == IF is_last THEN TerminalGlyph ELSE BranchGlyph
             child_prefix == Append(prefix, BarUnit)
         IN  <<Line(prefix, connector, node.name, node.path, node.tags)>>
             \o (IF node.projects # <<>>
                 THEN FormatFromBars(node.projects, 1, child_prefix)
                 ELSE <<>>)
             \o FormatFromBars(nodes, i + 1, prefix)

\* format_project_tree, from the i-th sibling on: the lines it pushes.
RECURSIVE FormatFrom(_, _, _)
FormatFrom(nodes, i, prefix) ==
    IF i > Len(nodes) THEN <<>>
    ELSE LET node == nodes[i]
             is_last == i = Len(nodes)
             connector == IF is_last THEN TerminalGlyph ELSE BranchGlyph
             child_prefix == IF is_last THEN Append(prefix, SpaceUnit)
                             ELSE Append(prefix, BarUnit)
         IN  <<Line(prefix, connector, node.name, node.path, node.tags)>>
             \o (IF node.projects # <<>>
                 THEN FormatFrom(node.projects, 1, child_prefix)
                 ELSE <<>>)
             \o FormatFrom(nodes, i + 1, prefix)

\* Mutant of format_project_tree: the loop pushes the line of each node and
\* does not call itself for node.projects.
FormatTopLevel(nodes, prefix) ==
    [i \in 1..Len(nodes) |->
        Line(prefix, IF i = Len(nodes) THEN TerminalGlyph ELSE BranchGlyph,
             nodes[i].name, nodes[i].path, nodes[i].tags)]

format_project_tree(nodes, prefix) == FormatFrom(nodes, 1, prefix)

\* The serialized form of a ProjectTreeNode: empty tags and projects are omitted.
RECURSIVE JsonNode(_)
JsonNode(node) ==
    LET sub == [i \in 1..Len(node.projects) |-> JsonNode(node.projects[i])]
        base == [name |-> node.name, path |-> node.path, repo |-> node.repo,
                 is_meta |-> node.is_meta]
    IN  IF node.tags = <<>> /\ sub = <<>> THEN base
        ELSE IF node.tags = <<>> THEN base @@ [projects |-> sub]
        ELSE IF sub = <<>> THEN base @@ [tags |-> node.tags]
        ELSE base @@ [tags |-> node.tags, projects |-> sub]

\* Mutant of ListMaxDepth: the depth option is passed on whether or not the
\* request is recursive.
ListDepthOption(options) == options.depth

\* The depth the list walks to.
ListMaxDepth(options) == IF options.recursive THEN options.depth ELSE Some(0)

\* handle_project_list(cwd, options); root_repo is what the git shell-out gave.
handle_project_list(options, root_repo) ==
    LET walked == walk_meta_tree(ListMaxDepth(options))
        project_nodes == [i \in 1..Len(walked.tree) |-> to_project_tree_node(walked.tree[i])]
    IN  IF ~walked.ok THEN Error(walked.err, "")
        ELSE IF options.json_output
        THEN MessageList("json",
                 <<[path |-> <<".">>, repo |-> root_repo,
                    projects |-> [i \in 1..Len(project_nodes) |-> JsonNode(project_nodes[i])]]>>)
        ELSE MessageList("text",
                 <<Line(<<>>, "", ".", root_repo, <<>>)>>
                 \o format_project_tree(project_nodes, <<>>))

----------------------------------------------------------------------------
(* execute_command (lib.rs) *)

\* The options the list runs under: --json among the args turns json on.
EffectiveOptions(args, options) ==
    IF "--json" \in Range(args) /\ ~options.json_output
    THEN [options EXCEPT !.json_output = TRUE]
    ELSE options

\* The results execute_command can return for a request.
execute_command(command, args, options, provided_projects, root_repo) ==
    IF ~cwdOk
    THEN {Error("Failed to get current directory: ", "io error")}
    ELSE IF command \in {"project list", "project ls"}
    THEN {handle_project_list(EffectiveOptions(args, options), root_repo)}
    ELSE IF provided_projects # <<>>
    THEN execute_command_recursive(command, provided_projects)
    ELSE ExecuteLocal(command, options)

----------------------------------------------------------------------------
(* Requests (main.rs) *)

\* The commands the plugin announces (--meta-plugin-info).
KnownCommands ==
    {"project list", "project ls", "project check", "project sync", "project update"}

\* What the git shell-out for the remote of the working directory can give.
RootRepos == {<<>>, <<"url", "origin">>}

Level1 == {<<n>> : n \in Names}

\* The pre-discovered project lists: paths of projects, none twice.
ProvidedPaths == {<<NamePool[1]>>, <<NamePool[2]>>}

ProvidedLists ==
    UNION {SeqsOf(S) : S \in {T \in SUBSET ProvidedPaths : Cardinality(T) <= MaxProvided}}

\* PluginRequestOptions
DefaultRequestOptions ==
    [json_output |-> FALSE, verbose |-> FALSE, parallel |-> FALSE, dry_run |-> FALSE,
     recursive |-> FALSE, depth |-> None]

\* PluginRequest.  Each family of requests varies the fields its command reads
\* and the fields the properties below speak of; the others keep their serde
\* defaults.
ListRequests ==
    {[command |-> "project list", args |-> <<>>, projects |-> <<>>,
      options |-> [DefaultRequestOptions EXCEPT
                       !.json_output = j, !.recursive = rd[1], !.depth = rd[2]]] :
        j \in BOOLEAN, rd \in {<<FALSE, None>>, <<TRUE, None>>, <<TRUE, Some(0)>>}}
    \cup {[command |-> "project list", args |-> <<"--json">>, projects |-> <<>>,
           options |-> DefaultRequestOptions]}
    \cup {[command |-> "project ls", args |-> <<>>, projects |-> p,
           options |-> DefaultRequestOptions] : p \in ProvidedLists}

CheckRequests ==
    {[command |-> "project check", args |-> <<>>, projects |-> p,
      options |-> DefaultRequestOptions] : p \in ProvidedLists}

SyncRequests ==
    {[command |-> "project sync", args |-> <<>>, projects |-> p,
      options |-> [DefaultRequestOptions EXCEPT !.parallel = par]] :
        p \in ProvidedLists, par \in BOOLEAN}
    \cup {[command |-> "project update", args |-> <<>>, projects |-> p,
           options |-> [DefaultRequestOptions EXCEPT !.parallel = TRUE]] :
             p \in ProvidedLists}

OtherRequests ==
    {[command |-> c, args |-> <<>>, projects |-> p,
      options |-> DefaultRequestOptions] :
        c \in {"project unknown", "project status"}, p \in ProvidedLists}

NoRequest ==
    [command |-> "", args |-> <<>>, projects |-> <<>>, options |-> DefaultRequestOptions]

\* let options = ExecuteOptions { ... }: the request's parallel is not copied.
ToExecuteOptions(o) ==
    [dry_run |-> o.dry_run, json_output |-> o.json_output, recursive |-> o.recursive,
     depth |-> o.depth, verbose |-> o.verbose]

\* match result { ... } of main: the exit code of the process.
ExitCodeOf(r) == IF r.kind = "Error" THEN 1 ELSE 0

\* match result { ... } of main: what output_execution_plan hands to the shim.
HandedTo(r) == IF r.kind = "Plan" THEN r.commands ELSE <<>>

----------------------------------------------------------------------------
(* The workspaces the model starts from *)

FsKinds == {"absent", "file", "dir"}

RootManifests ==
    {Manifest(s, NoEntries) : s \in BadStates \cup {"absent"}}
        \cup {Manifest("ok", e) : e \in [Names -> EntryKinds]}

NestedEntries ==
    {e \in [Names -> EntryKinds] : \A n \in Names \ NestedNames : e[n] = "undeclared"}

NestedManifests ==
    {Manifest(s, NoEntries) : s \in BadStates \cup {"absent"}}
        \cup {Manifest("ok", e) : e \in NestedEntries}

NestedChildren == {Join(d, n) : d \in NestedDirs, n \in NestedNames}

\* A nested manifest sits in a directory; the entries below a nested
\* directory exist only when it does and its manifest declares them.
WellFormedWorld(fs1, fs2, nested) ==
    \A d \in NestedDirs :
        /\ fs1[d[1]] # "dir" => nested[d].state = "absent"
        /\ \A n \in NestedNames :
               fs2[Join(d, n)] # "absent" =>
                   nested[d].state = "ok" /\ nested[d].projects[n] # "undeclared"

----------------------------------------------------------------------------
(* The state machine *)

Init ==
    /\ request = NoRequest
    /\ result = NoResult
    /\ exitCode = 0
    /\ pending = <<>>
    /\ \/ /\ cwdOk = FALSE
          /\ dirs = {}
          /\ files = {}
          /\ meta = [d \in {cwd} |-> AbsentManifest]
       \/ /\ cwdOk = TRUE
          /\ \E fs1 \in [Names -> FsKinds], fs2 \in [NestedChildren -> FsKinds],
                root \in RootManifests, nested \in [NestedDirs -> NestedManifests] :
                /\ WellFormedWorld(fs1, fs2, nested)
                /\ dirs = {<<n>> : n \in {k \in Names : fs1[k] = "dir"}}
                              \cup {p \in NestedChildren : fs2[p] = "dir"}
                /\ files = {<<n>> : n \in {k \in Names : fs1[k] = "file"}}
                               \cup {p \in NestedChildren : fs2[p] = "file"}
                /\ meta = [d \in {cwd} \cup NestedDirs |->
                               IF d = cwd THEN root ELSE nested[d]]

\* One run of the plugin with --meta-plugin-exec: main reads the request,
\* calls execute_command and prints the plan or the message, or exits 1.
Exec(req) ==
    /\ result.kind = "None"
    /\ pending = <<>>
    /\ \E root_repo \in RootRepos :
         \E r \in execute_command(req.command, req.args, ToExecuteOptions(req.options),
                                  req.projects, root_repo) :
            /\ request' = req
            /\ result' = r
            /\ exitCode' = ExitCodeOf(r)
            /\ pending' = HandedTo(r)
    /\ UNCHANGED world

ProjectList == \E req \in ListRequests : Exec(req)

ProjectCheck == \E req \in CheckRequests : Exec(req)

ProjectSync == \E req \in SyncRequests : Exec(req)

OtherCommand == \E req \in OtherRequests : Exec(req)

\* The plugin process ends; the plan it printed stays with the runner.
Exit ==
    /\ result.kind # "None"
    /\ request' = NoRequest
    /\ result' = NoResult
    /\ exitCode' = 0
    /\ UNCHANGED <<world, pending>>

\* The target directory of a planned clone command.
TargetOf(c) == c.cmd[3]

\* The external runner runs the next command of the plan and the clone
\* creates its target directory.
CloneSucceeds ==
    /\ pending # <<>>
    /\ TargetOf(Head(pending)) \notin files
    /\ dirs' = dirs \cup {TargetOf(Head(pending))}
    /\ pending' = Tail(pending)
    /\ UNCHANGED <<cwdOk, files, meta, request, result, exitCode>>

\* The external runner runs the next command of the plan and the clone fails.
CloneFails ==
    /\ pending # <<>>
    /\ pending' = Tail(pending)
    /\ UNCHANGED <<cwdOk, dirs, files, meta, request, result, exitCode>>

Next ==
    \/ ProjectList
    \/ ProjectCheck
    \/ ProjectSync
    \/ OtherCommand
    \/ Exit
    \/ CloneSucceeds
    \/ CloneFails

Spec == Init /\ [][Next]_vars

----------------------------------------------------------------------------
(* Workspaces whose root manifest has keys that are no plain names *)

AllKeys == Names \cup Range(EscapingKeys)

\* The places the keys of the root manifest name.
KeyTargets == {Join(cwd, k) : k \in AllKeys}

InitKeys ==
    /\ request = NoRequest
    /\ result = NoResult
    /\ exitCode = 0
    /\ pending = <<>>
    /\ cwdOk = TRUE
    /\ files = {}
    /\ \E e \in [AllKeys -> {"string", "undeclared"}], present \in SUBSET KeyTargets :
          /\ dirs = present
          /\ meta = [d \in {cwd} |-> Manifest("ok", e)]

SpecKeys == InitKeys /\ [][Next]_vars

----------------------------------------------------------------------------
(* Workspaces nested three manifests deep *)

\* The directories that can hold a manifest of their own: two projects of the
\* root, and a project of the first of them.
TreeDirs == {<<NamePool[1]>>, <<NamePool[2]>>, <<NamePool[1], NamePool[2]>>}

TreeRootManifests ==
    {Manifest(s, NoEntries) : s \in {"absent", "badsyntax"}}
        \cup {Manifest("ok", e) : e \in [Names -> {"string", "object_repo", "undeclared"}]}

\* The keys a manifest below the root can declare.
TreeNames == {NamePool[1], NamePool[2]}

TreeNestedEntries ==
    {e \in [Names -> {"string", "undeclared"}] :
        \A n \in Names \ TreeNames : e[n] = "undeclared"}

TreeNestedManifests ==
    {Manifest(s, NoEntries) : s \in BadStates \cup {"absent"}}
        \cup {Manifest("ok", e) : e \in TreeNestedEntries}

Parent(dir) == SubSeq(dir, 1, Len(dir) - 1)

\* A manifest sits in a directory, and a directory below a project exists
\* only when the manifest of the project declares it.
WellFormedTree(present, nested) ==
    \A d \in TreeDirs :
        /\ nested[d].state # "absent" => d \in present
        /\ (d \in present /\ Len(d) > 1) =>
               /\ Parent(d) \in present
               /\ nested[Parent(d)].state = "ok"
               /\ nested[Parent(d)].projects[d[Len(d)]] # "undeclared"

InitTree ==
    /\ request = NoRequest
    /\ result = NoResult
    /\ exitCode = 0
    /\ pending = <<>>
    /\ cwdOk = TRUE
    /\ files = {}
    /\ \E root \in TreeRootManifests, present \in SUBSET TreeDirs,
          nested \in [TreeDirs -> TreeNestedManifests] :
          /\ WellFormedTree(present, nested)
          /\ dirs = present
          /\ meta = [d \in {cwd} \cup TreeDirs |-> IF d = cwd THEN root ELSE nested[d]]

\* The depth options of the list requests.
DepthOptions == {None} \cup {Some(d) : d \in 0..MaxDepth}

TreeListRequests ==
    {[command |-> "project list", args |-> <<>>, projects |-> <<>>,
      options |-> [DefaultRequestOptions EXCEPT
                       !.json_output = j, !.recursive = TRUE, !.depth = d]] :
        j \in BOOLEAN, d \in DepthOptions}
    \cup {[command |-> "project list", args |-> <<>>, projects |-> <<>>,
           options |-> [DefaultRequestOptions EXCEPT
                            !.json_output = j, !.recursive = FALSE, !.depth = d]] :
             j \in BOOLEAN, d \in {None, Some(MaxDepth)}}

\* The pre-discovered lists: the projects of the root, one or both.
TreeProvidedLists ==
    UNION {SeqsOf(S) : S \in (SUBSET {d \in TreeDirs : Len(d) = 1}) \ {{}}}

TreeCheckRequests ==
    {[command |-> "project check", args |-> <<>>, projects |-> p,
      options |-> DefaultRequestOptions] : p \in TreeProvidedLists}

TreeSyncRequests ==
    {[command |-> "project sync", args |-> <<>>, projects |-> p,
      options |-> DefaultRequestOptions] : p \in TreeProvidedLists}

ProjectListTree == \E req \in TreeListRequests : Exec(req)

ProjectCheckTree == \E req \in TreeCheckRequests : Exec(req)

ProjectSyncTree == \E req \in TreeSyncRequests : Exec(req)

\* The answers on a workspace as it stands: the runs in which no clone of a
\* plan creates its directory.  Spec has the runs in which clones succeed.
NextTree ==
    \/ ProjectListTree
    \/ ProjectCheckTree
    \/ ProjectSyncTree
    \/ Exit
    \/ CloneFails

SpecTree == InitTree /\ [][NextTree]_vars

----------------------------------------------------------------------------
(* The vocabulary of the properties: what a manifest declares *)

\* The manifest of dir exists and parses.
ManifestOk(dir) == MetaExists(dir) /\ MetaAt(dir).state = "ok"

\* The projects the manifest of dir declares: the entries whose value is a
\* string or an object.
DeclaredProjects(dir) ==
    IF ManifestOk(dir)
    THEN {n \in DOMAIN MetaAt(dir).projects :
              MetaAt(dir).projects[n] \in {"string", "object_repo", "object_norepo"}}
    ELSE {}

\* The declared project gives a repo URL, as a string or in an object.
HasUrl(dir, n) == MetaAt(dir).projects[n] \in {"string", "object_repo"}

\* Declared with a URL and no directory on disk.
AbsentWithUrl(dir) ==
    {n \in DeclaredProjects(dir) : HasUrl(dir, n) /\ ~IsDir(Join(dir, n))}

\* The directories whose manifests a request reconciles.
ReconciledDirs(req) == {cwd} \cup Range(req.projects)

\* The paths, relative to the working directory, of all missing projects.
MissingPaths(req) ==
    UNION {{Join(d, n) : n \in AbsentWithUrl(d)} : d \in ReconciledDirs(req)}

\* The URL the manifests declare for the project at a path.
DeclaredUrl(path) == RepoUrl(SubSeq(path, 1, Len(path) - 1), path[Len(path)])

\* The result in the state is the answer to the request in the state, and the
\* workspace is still the one the request ran on.
Fresh == result.kind # "None" /\ pending = HandedTo(result)

Reconciles(c) == c \in {"project check", "project sync", "project update"}

\* The request is served from the manifest of the working directory alone.
ServedLocally ==
    cwdOk /\ request.projects = <<>> /\ Reconciles(request.command) /\ ManifestOk(cwd)

----------------------------------------------------------------------------
(* Properties *)

\* What the reconciliation of the manifest of the working directory computed:
\* the keys find_missing_projects returned, and the other keys of the map.
ReconciledMissing ==
    {m.name : m \in UNION {Range(v) :
        v \in find_missing_projects(parse_meta_projects(cwd).map, cwd)}}

ReconciledPresent == DOMAIN parse_meta_projects(cwd).map \ ReconciledMissing

ReconciledExcluded == DeclaredProjects(cwd) \ (ReconciledPresent \cup ReconciledMissing)

\* C1: after a check, sync or update served from the manifest of the working
\* directory, the declared projects are partitioned: present are exactly the
\* projects with a URL whose directory exists, missing are exactly the
\* projects with a URL whose directory is absent (a regular file is no
\* directory), and the projects without a URL are in neither set.
C1_ReconcilePartitions ==
    (Fresh /\ ServedLocally) =>
        /\ \A n \in DeclaredProjects(cwd) :
              /\ n \in ReconciledPresent <=> (HasUrl(cwd, n) /\ IsDir(Join(cwd, n)))
              /\ n \in ReconciledMissing <=> (HasUrl(cwd, n) /\ ~IsDir(Join(cwd, n)))
              /\ ~HasUrl(cwd, n) => n \in ReconciledExcluded
        /\ ReconciledPresent \cap ReconciledMissing = {}
        /\ ReconciledPresent \cup ReconciledMissing \cup ReconciledExcluded
               = DeclaredProjects(cwd)

\* C2: when the manifest of the working directory parses, check answers
\* "All projects are cloned and present." exactly when no declared project
\* with a URL is absent from disk, and otherwise "<N> project(s) missing"
\* with N the number of declared projects with a URL whose directory is absent.
C2_CheckReportsMissingCount ==
    (Fresh /\ cwdOk /\ request.command = "project check" /\ ManifestOk(cwd)) =>
        IF MissingPaths(request) = {}
        THEN result = Message(AllPresentText)
        ELSE result = MessageCount(Cardinality(MissingPaths(request)))

\* The (url, target) pairs of the commands of a plan.
PlanPairs(commands) ==
    {<<commands[i].cmd[2], commands[i].cmd[3]>> : i \in 1..Len(commands)}

\* C3: a plan returned by sync or update holds exactly one command per
\* missing project and none for any other; each runs in "." and names the
\* URL of the project and its target path, base_dir/path, which for a project
\* of a pre-discovered nested project P is P/path below the root.
C3_PlanOneCommandPerMissing ==
    (Fresh /\ result.kind = "Plan") =>
        /\ Len(result.commands) = Cardinality(MissingPaths(request))
        /\ PlanPairs(result.commands)
               = {<<DeclaredUrl(p), p>> : p \in MissingPaths(request)}
        /\ \A i \in 1..Len(result.commands) :
               /\ result.commands[i].dir = "."
               /\ result.commands[i].cmd[1] = "git clone"

\* The targets of the commands of a plan, in plan order.
PlanTargets(commands) == [i \in 1..Len(commands) |-> TargetOf(commands[i])]

\* C4: the plan of a sync served from the manifest of the working directory
\* lists the missing projects in manifest order.
C4_PlanInManifestOrder ==
    (Fresh /\ ServedLocally /\ result.kind = "Plan") =>
        PlanTargets(result.commands)
            = [i \in 1..Len(result.commands) |->
                   Join(cwd, ManifestOrder({t[1] : t \in Range(PlanTargets(result.commands))})[i])]

\* C5 as stated: the plan is sequential unless the request options ask for
\* parallel execution, and parallel when they do.
C5_ParallelFollowsRequest ==
    result.kind = "Plan" =>
        result.parallel = (IF request.options.parallel THEN "Some(true)" ELSE "Some(false)")

\* C5 amended: every plan returned by sync or update is sequential, whatever
\* the request options ask for.
C5_PlanAlwaysSequential ==
    result.kind = "Plan" => result.parallel = "Some(false)"

C5_Witness ==
    /\ result.kind = "Plan"
    /\ request.options.parallel
    /\ request.command \in {"project sync", "project update"}

\* C6: when no project is missing, sync and update answer "Nothing to do" and
\* return no plan; every plan returned holds at least one command, so the
\* runner is never handed an empty plan.
C6_NoEmptyPlan ==
    /\ result.kind = "Plan" => Len(result.commands) >= 1
    /\ (result.kind = "Plan" /\ Fresh) => pending # <<>>
    /\ (/\ Fresh
        /\ cwdOk
        /\ request.command \in {"project sync", "project update"}
        /\ request.projects # <<>> \/ ManifestOk(cwd)
        /\ MissingPaths(request) = {})
           => result = Message(NothingToDoText)

C6_Witness ==
    /\ Fresh
    /\ request.command = "project sync"
    /\ request.projects = <<>>
    /\ \E n \in DeclaredProjects(cwd) : HasUrl(cwd, n) /\ IsDir(Join(cwd, n))
    /\ result = Message(NothingToDoText)

\* C7: when the working directory holds no manifest, list, check, sync and
\* update return an Error, with or without a pre-discovered project list.
C7_NoManifestIsAnError ==
    (Fresh /\ cwdOk /\ ~MetaExists(cwd) /\ request.command \in KnownCommands) =>
        result.kind = "Error"

\* C8: when the manifest of the working directory exists and is malformed
\* (no valid syntax, or no "projects" mapping), check, sync and update return
\* an Error, with or without a pre-discovered project list.
C8_MalformedManifestIsAnError ==
    (Fresh /\ cwdOk /\ MetaExists(cwd)
           /\ MetaAt(cwd).state \in {"badsyntax", "noprojects"}
           /\ Reconciles(request.command)) =>
        result.kind = "Error"

\* C9: an entry whose value is an object with a repo URL is a declared
\* project like a string entry: when its directory is absent check counts it
\* as missing and sync plans a clone command for it.
C9_ObjectEntriesAreReconciled ==
    (Fresh /\ ServedLocally) =>
        \A n \in Names :
            (MetaAt(cwd).projects[n] = "object_repo" /\ ~IsDir(Join(cwd, n))) =>
                IF request.command = "project check"
                THEN result.kind = "Message" /\ result.count >= 1
                ELSE /\ result.kind = "Plan"
                     /\ <<RepoUrl(cwd, n), Join(cwd, n)>> \in PlanPairs(result.commands)

\* C10 as stated: a command name that is none of the five returns an Error
\* naming the command as unknown, whatever the manifest and the filesystem.
C10_UnknownCommandNamed ==
    (Fresh /\ cwdOk /\ request.command \notin KnownCommands) =>
        /\ result.kind = "Error"
        /\ result.text = "Unknown command: "
        /\ result.arg = request.command

\* The unknown command reaches the match on the command name.
ReachesMatch == cwdOk /\ (request.projects # <<>> \/ ManifestOk(cwd))

\* C10 amended: a command name that is none of the five returns an Error,
\* never a Message or a Plan; the Error names the command as unknown when a
\* pre-discovered project list is given or the manifest of the working
\* directory exists and parses, and otherwise reports the working directory
\* or the manifest.
C10_UnknownCommandIsAnError ==
    (Fresh /\ request.command \notin KnownCommands) =>
        /\ result.kind = "Error"
        /\ ReachesMatch =>
               result.text = "Unknown command: " /\ result.arg = request.command
        /\ ~ReachesMatch =>
               result.text \in {"Failed to get current directory: ",
                                "No .meta file found in ", "Failed to parse .meta: "}

C10_Witness ==
    /\ Fresh
    /\ request.command = "project unknown"
    /\ request.projects = <<>>
    /\ ManifestOk(cwd)
    /\ result = Error("Unknown command: ", "project unknown")

\* A path stays inside the working directory: it is relative, and read from
\* the left it never has more parent segments than names before them.
RECURSIVE StaysInside(_, _)
StaysInside(path, level) ==
    IF path = <<>> THEN TRUE
    ELSE IF Head(path) = FsRoot THEN FALSE
    ELSE IF Head(path) = ".."
    THEN level > 0 /\ StaysInside(Tail(path), level - 1)
    ELSE StaysInside(Tail(path), level + 1)

InsideRoot(path) == StaysInside(path, 0)

\* C11: whatever keys the manifests have, keys with a parent segment and
\* absolute keys included, every target path a planned clone command names
\* lies inside the workspace root.
C11_TargetsInsideRoot ==
    result.kind = "Plan" =>
        \A i \in 1..Len(result.commands) : InsideRoot(TargetOf(result.commands[i]))

\* The request in the state is a list and was answered with a rendering.
Listed == Fresh /\ request.command \in {"project list", "project ls"}
              /\ result.kind = "Message"

ListedStructured == Listed /\ result.text = "json"

ListedText == Listed /\ result.text = "text"

\* The top-level nodes of a structured list output.
TopNodes == result.output[1].projects

\* The children of a node of the structured output: the field is left out
\* when there are none.
NodeChildren(node) == IF "projects" \in DOMAIN node THEN node.projects ELSE <<>>

\* Children occur only under nodes that hold a manifest and have levels left.
RECURSIVE ChildrenWithinBudget(_, _)
ChildrenWithinBudget(nodes, levels) ==
    \A i \in 1..Len(nodes) :
        LET kids == NodeChildren(nodes[i]) IN
        kids # <<>> =>
            /\ nodes[i].is_meta
            /\ levels = None \/ levels[1] > 0
            /\ ChildrenWithinBudget(kids, IF levels = None THEN None
                                          ELSE Some(levels[1] - 1))

\* C12: in the list output a node has children only when it is_meta and the
\* depth budget is not used up at it.  Without recursive every top-level
\* node has no children, whatever the depth option says, and is_meta is
\* true exactly for the projects that hold a manifest; with recursive and
\* depth d no node lies more than d levels below the top-level nodes, in
\* the structured output and in the prefixes of the text output.
C12_ChildrenOnlyWithinDepth ==
    /\ ListedStructured =>
          /\ ChildrenWithinBudget(TopNodes, IF request.options.recursive
                                            THEN request.options.depth ELSE Some(0))
          /\ ~request.options.recursive =>
                 \A i \in 1..Len(TopNodes) :
                     /\ NodeChildren(TopNodes[i]) = <<>>
                     /\ TopNodes[i].is_meta <=> MetaExists(TopNodes[i].path)
    /\ ListedText =>
          \A i \in 2..Len(result.output) :
              /\ ~request.options.recursive => Len(result.output[i].prefix) = 0
              /\ (request.options.recursive /\ request.options.depth # None) =>
                     Len(result.output[i].prefix) <= request.options.depth[1]

\* A recursive list with depth 1 stops at a project two manifests below the
\* root that declares projects of its own.
C12_Witness ==
    /\ ListedStructured
    /\ request.options.recursive
    /\ request.options.depth = Some(1)
    /\ \E i \in 1..Len(TopNodes) :
          \E j \in 1..Len(NodeChildren(TopNodes[i])) :
              LET kid == NodeChildren(TopNodes[i])[j] IN
              /\ kid.is_meta
              /\ DeclaredProjects(kid.path) # {}
              /\ NodeChildren(kid) = <<>>

\* The nodes are one per project the manifest of dir declares, and below
\* every node that holds a manifest the same is true of that manifest.
RECURSIVE OneNodePerDeclared(_, _)
OneNodePerDeclared(nodes, dir) ==
    /\ Len(nodes) = Cardinality(DeclaredProjects(dir))
    /\ {<<nodes[i].name, nodes[i].path>> : i \in 1..Len(nodes)}
           = {<<n, Join(dir, n)>> : n \in DeclaredProjects(dir)}
    /\ \A i \in 1..Len(nodes) :
           /\ nodes[i].is_meta <=> MetaExists(nodes[i].path)
           /\ IF nodes[i].is_meta
              THEN OneNodePerDeclared(NodeChildren(nodes[i]), nodes[i].path)
              ELSE NodeChildren(nodes[i]) = <<>>

\* C13: with recursive and no depth limit the structured list output has
\* exactly one node for every project the root manifest declares and, under
\* each node whose directory holds a manifest (is_meta), exactly one node for
\* every project that manifest declares, at every level of nesting.
C13_OneNodePerDeclaredProject ==
    (/\ ListedStructured
     /\ request.options.recursive
     /\ request.options.depth = None) => OneNodePerDeclared(TopNodes, cwd)

\* Three manifests deep: a top-level node, a node below it that holds a
\* manifest, and a node below that one.
C13_Witness ==
    /\ ListedStructured
    /\ request.options.recursive
    /\ request.options.depth = None
    /\ \E i \in 1..Len(TopNodes) :
          /\ TopNodes[i].is_meta
          /\ \E j \in 1..Len(NodeChildren(TopNodes[i])) :
                LET kid == NodeChildren(TopNodes[i])[j] IN
                kid.is_meta /\ NodeChildren(kid) # <<>>

\* The options the list in the state ran under.
ListOptions == EffectiveOptions(request.args, ToExecuteOptions(request.options))

\* The two renderings handle_project_list has for the workspace in the state.
StructuredRendering(root_repo) ==
    handle_project_list([ListOptions EXCEPT !.json_output = TRUE], root_repo)

TextRendering(root_repo) ==
    handle_project_list([ListOptions EXCEPT !.json_output = FALSE], root_repo)

\* The nodes of a structured tree depth-first, each with its nesting depth.
RECURSIVE DepthFirst(_, _)
DepthFirst(nodes, depth) ==
    IF nodes = <<>> THEN <<>>
    ELSE <<[name |-> Head(nodes).name, path |-> Head(nodes).path, depth |-> depth]>>
         \o DepthFirst(NodeChildren(Head(nodes)), depth + 1)
         \o DepthFirst(Tail(nodes), depth)

\* What the lines of a text rendering below the line of the root report: the
\* name, the path and the width of the prefix in units.
LinesReport(lines) ==
    [i \in 1..Len(lines) - 1 |->
        [name |-> lines[i + 1].name, path |-> lines[i + 1].path,
         depth |-> Len(lines[i + 1].prefix)]]

\* C14: the structured and the text rendering of a resolved tree report the
\* same (name, path) pairs at the same nesting depth in the same depth-first
\* order: the text has exactly one line per node of the structured tree, and
\* a node at nesting depth k is on a line whose prefix is k units wide.
C14_RenderingsAgree ==
    Listed =>
        \E root_repo \in RootRepos :
            LET structured == StructuredRendering(root_repo)
                text == TextRendering(root_repo)
            IN  /\ result \in {structured, text}
                /\ Len(text.output) - 1
                      = Len(DepthFirst(structured.output[1].projects, 0))
                /\ LinesReport(text.output)
                      = DepthFirst(structured.output[1].projects, 0)

\* A text list of a tree with a node two levels below the top-level nodes.
C14_Witness ==
    /\ ListedText
    /\ \E i \in 2..Len(result.output) : Len(result.output[i].prefix) = 2
    /\ \E root_repo \in RootRepos :
          /\ result = TextRendering(root_repo)
          /\ \E n \in Range(DepthFirst(StructuredRendering(root_repo).output[1].projects, 0)) :
                n.depth = 2

\* In a depth-first sequence of nodes, the i-th node is the last of its
\* sibling list: no later node of its depth comes before a shallower one.
LastSibling(nodes, i) ==
    ~\E j \in i + 1..Len(nodes) :
        /\ nodes[j].depth = nodes[i].depth
        /\ \A k \in i + 1..j - 1 : nodes[k].depth > nodes[i].depth

\* The node the i-th node of a depth-first sequence is a child of.
ParentIndex(nodes, i) ==
    CHOOSE p \in 1..i - 1 :
        /\ nodes[p].depth = nodes[i].depth - 1
        /\ \A k \in p + 1..i - 1 : nodes[k].depth >= nodes[i].depth

\* C15: in the text rendering every node but the last of its sibling list is
\* drawn with the branch glyph and the last, and only the last, with the
\* terminal glyph; the prefix of the top-level nodes is empty and the prefix
\* of the children of a node is the prefix of the node extended by the
\* vertical bar when the node is not the last sibling and by spaces when it
\* is, at every depth.
C15_GlyphsAndPrefixes ==
    ListedText =>
        \E root_repo \in RootRepos :
            LET nodes == DepthFirst(StructuredRendering(root_repo).output[1].projects, 0)
                lines == Tail(result.output)
            IN  /\ result = TextRendering(root_repo)
                /\ Len(lines) = Len(nodes)
                /\ \A i \in 1..Len(lines) :
                       /\ lines[i].connector
                             = (IF LastSibling(nodes, i) THEN "L-- " ELSE "|-- ")
                       /\ IF nodes[i].depth = 0
                          THEN lines[i].prefix = <<>>
                          ELSE LET p == ParentIndex(nodes, i) IN
                               lines[i].prefix
                                 = Append(lines[p].prefix,
                                          IF LastSibling(nodes, p) THEN "    " ELSE "|   ")

\* A text list in which a node that is not the last sibling and a node that
\* is the last sibling both have children.
C15_Witness ==
    /\ ListedText
    /\ \E i, j \in 2..Len(result.output) :
          /\ result.output[i].prefix = <<BarUnit>>
          /\ result.output[j].prefix = <<SpaceUnit>>
    /\ \E i \in 2..Len(result.output) : Len(result.output[i].prefix) = 2

\* The manifest of dir exists and is unreadable or malformed.
Malformed(dir) == MetaExists(dir) /\ MetaAt(dir).state \in BadStates

\* What the reconciliation of the manifest of dir alone finds missing, as
\* paths below the working directory.
MissingByManifest(dir) ==
    LET parsed == parse_meta_projects(dir) IN
    IF MetaExists(dir) /\ parsed.ok
    THEN {Join(dir, n) : n \in {k \in DOMAIN parsed.map : NotOnDisk(dir, k)}}
    ELSE {}

\* What the root manifest and the manifests of the provided projects that
\* are not malformed find missing.
MissingByOthers(req) ==
    UNION {MissingByManifest(d) : d \in {e \in ReconciledDirs(req) : ~Malformed(e)}}

\* Every node of a project with a malformed manifest is a leaf.
RECURSIVE MalformedAreLeaves(_)
MalformedAreLeaves(nodes) ==
    \A i \in 1..Len(nodes) :
        /\ Malformed(nodes[i].path) =>
               nodes[i].is_meta /\ NodeChildren(nodes[i]) = <<>>
        /\ MalformedAreLeaves(NodeChildren(nodes[i]))

\* Some project below the root has a malformed manifest.
SomeNestedMalformed == \E d \in DOMAIN meta : d # cwd /\ Malformed(d)

PlanRunSucceeded ==
    /\ result.kind = "Plan"
    /\ request.command \in {"project sync", "project update"}
    /\ request.projects = <<>>
    /\ pending = <<>>
    /\ \A i \in 1..Len(result.commands) : TargetOf(result.commands[i]) \in dirs

\* What a request without pre-discovered list is answered in the state.
AnswersNow(command) ==
    execute_command(command, <<>>, ToExecuteOptions(DefaultRequestOptions), <<>>, <<>>)

\* C17: when sync (with no pre-discovered list) has returned a plan and
\* every command of the plan has succeeded, each clone creating its target
\* directory, a following check answers "All projects are cloned and
\* present." and a following sync answers "Nothing to do" and returns no plan.
C17_SyncThenPlanReconciles ==
    PlanRunSucceeded =>
        /\ AnswersNow("project check") = {Message(AllPresentText)}
        /\ AnswersNow("project sync") = {Message(NothingToDoText)}
        /\ AnswersNow("project update") = {Message(NothingToDoText)}

\* A plan of two clones has been run and both created their directories.
C17_Witness ==
    /\ PlanRunSucceeded
    /\ Len(result.commands) = 2
    /\ exitCode = 0

====
